---- MODULE Spec2Model ----
(***************************************************************************)
(* cpremote: command-line client of the CircuitPython web workflow.        *)
(* One process run is main(): read the environment, parse the command      *)
(* line, let the flags override the environment, then call one operation,  *)
(* which sends one HTTP request, blocks for the response and prints.       *)
(*                                                                         *)
(* Python values: a str is a TLA+ string, except remote directory/file     *)
(* paths, which are sequences of one-character strings so that endswith    *)
(* and += are computed; Join turns a path into a str.  An Optional value   *)
(* is None == <<>> or Some(v) == <<v>>.  A printed line is the sequence    *)
(* of the pieces of its (f-)string; stdout is the sequence of lines.       *)
(***************************************************************************)
EXTENDS Integers, Sequences, FiniteSets, TLC

VARIABLES
    pc,                 \* "start", "waiting" (blocked in requests.request), "exit", "raised"
    run,                \* number of the process run
    environ,            \* os.environ after load_dotenv
    args,               \* the argparse namespace
    cpremote_host,      \* module globals set by main
    cpremote_password,
    cpremote_units,
    directory,          \* the local variable `directory` of ls, mkdir, rmdir
    requests,           \* the HTTP requests this run has sent
    response,           \* the response received, None before
    stdout,             \* the lines this run has printed
    written,            \* the local files this run has written
    browser,            \* the URLs handed to webbrowser.open
    exception           \* the exception that ended the run, "none" otherwise

vars == <<pc, run, environ, args, cpremote_host, cpremote_password,
          cpremote_units, directory, requests, response, stdout, written,
          browser, exception>>

\* ------------------------------------------------------------------ bounds
MaxRuns == 2
MaxPathLen == 2

\* ------------------------------------------------------------ Python values
None == <<>>
Some(v) == <<v>>
Value(o) == o[1]

PathChars == {"a", "/"}
Paths == UNION {[1..n -> PathChars] : n \in 0..MaxPathLen}

RECURSIVE Join(_)
Join(s) == IF s = <<>> THEN "" ELSE Head(s) \o Join(Tail(s))

\* str.endswith('/')
endswith_slash(s) == Len(s) > 0 /\ s[Len(s)] = "/"

\* print(x): one line holding the string x
Line(x) == <<x>>

\* f'{x}' of an Optional[str]
FormatOptional(o) == IF o = None THEN "None" ELSE Value(o)

\* ------------------------------------------------------------------ inputs
\* os.getenv of the three variables: unset, or a value.  CPREMOTE_UNITS is
\* not validated; the flags are (argparse choices).
Environs ==
    [CPREMOTE_HOST : {None, Some("http://env")},
     CPREMOTE_PASSWORD : {None, Some("envpw")},
     CPREMOTE_UNITS : {None, Some("blocks")}]

Flags ==
    [host : {None, Some("http://flag")},
     password : {None, Some("flagpw")},
     units : {None, Some("b"), Some("kb")}]

FileNames == {<<"a">>}

\* what each subparser accepts: the attributes a subcommand does not define
\* are None here
Operands ==
         [command : {Some("devices"), Some("diskinfo"), Some("version"),
                     Some("repl"), None},
          src : {None}, dst : {None}, directory : {None}, file : {None}]
    \cup [command : {Some("get"), Some("put")},
          src : {Some(f) : f \in FileNames},
          dst : {None} \cup {Some(f) : f \in FileNames},
          directory : {None}, file : {None}]
    \cup [command : {Some("ls")},
          src : {None}, dst : {None},
          directory : {None} \cup {Some(d) : d \in Paths}, file : {None}]
    \cup [command : {Some("mkdir"), Some("rmdir")},
          src : {None}, dst : {None},
          directory : {Some(d) : d \in Paths}, file : {None}]
    \cup [command : {Some("mv")},
          src : {Some(f) : f \in FileNames},
          dst : {Some(f) : f \in FileNames},
          directory : {None}, file : {None}]
    \cup [command : {Some("rm")},
          src : {None}, dst : {None}, directory : {None},
          file : {Some(f) : f \in FileNames}]

\* parser.parse_args(): the flags, the subcommand, its operands; ls's
\* directory defaults to '/'
parse_args(flags, ops) ==
    [host |-> flags.host, password |-> flags.password, units |-> flags.units,
     command |-> ops.command, src |-> ops.src, dst |-> ops.dst,
     directory |-> IF ops.command = Some("ls") /\ ops.directory = None
                   THEN Some(<<"/">>) ELSE ops.directory,
     file |-> ops.file]

NoArgs ==
    [host |-> None, password |-> None, units |-> None, command |-> None,
     src |-> None, dst |-> None, directory |-> None, file |-> None]

NoEnviron ==
    [CPREMOTE_HOST |-> None, CPREMOTE_PASSWORD |-> None, CPREMOTE_UNITS |-> None]

\* ---------------------------------------------------------------- requests
\* HTTPBasicAuth('', cpremote_password)
HTTPBasicAuth(user, password) == Some(<<user, password>>)

Request(method, url, auth, headers, timeout, data) ==
    [method |-> method, url |-> url, auth |-> auth, headers |-> headers,
     timeout |-> timeout, data |-> data]

get_request(host, password, src) ==
    Request("GET", host \o "/fs/" \o Join(src), HTTPBasicAuth("", password),
            {}, None, None)

info_request(host, path) ==
    Request("GET", host \o "/cp/" \o path \o ".json", None, {}, None, None)

ls_directory(d) == IF ~endswith_slash(d) THEN d \o <<"/">> ELSE d

ls_request(host, password, d) ==
    Request("GET", host \o "/fs/" \o Join(d), HTTPBasicAuth("", password),
            {<<"Accept", "application/json">>}, Some(5), None)

mkdir_directory(d) == IF ~endswith_slash(d) THEN d \o <<"/">> ELSE d

mkdir_request(host, password, d) ==
    Request("PUT", host \o "/fs/" \o Join(d), HTTPBasicAuth("", password),
            {}, None, None)

mv_request(host, password, src, dst) ==
    Request("MOVE", host \o "/fs/" \o Join(src), HTTPBasicAuth("", password),
            {<<"X-Destination", "/fs/" \o Join(dst)>>}, None, None)

put_dst(src, dst) == IF dst = None THEN src ELSE Value(dst)

put_request(host, password, dst, data) ==
    Request("PUT", host \o "/fs/" \o Join(dst), HTTPBasicAuth("", password),
            {}, None, Some(data))

rm_request(host, password, file) ==
    Request("DELETE", host \o "/fs/" \o Join(file), HTTPBasicAuth("", password),
            {}, None, None)

\* rmdir appending '/' without looking at the argument
rmdir_directory_always(d) == d \o <<"/">>

rmdir_directory(d) == IF ~endswith_slash(d) THEN d \o <<"/">> ELSE d

rmdir_request(host, password, d) ==
    Request("DELETE", host \o "/fs/" \o Join(d), HTTPBasicAuth("", password),
            {}, None, None)

repl_url(host) == host \o "/cp/serial/"

\* the text open(src).read() returns
FileData == "data"

\* -------------------------------------------------------------------- main
\* the environment winning over the flag
Override_env_first(flag, env) == IF ~(env = None) THEN env ELSE flag

\* a flag that was given replaces the value from the environment
Override(flag, env) == IF ~(flag = None) THEN flag ELSE env

ConfigError(host, password) ==
    IF host = None THEN Some("Error: CPREMOTE_HOST is not set")
    ELSE IF password = None THEN Some("Error: CPREMOTE_PASSWORD is not set")
    ELSE None

Init ==
    /\ pc = "start"
    /\ run = 1
    /\ environ = NoEnviron
    /\ args = NoArgs
    /\ cpremote_host = None
    /\ cpremote_password = None
    /\ cpremote_units = None
    /\ directory = None
    /\ requests = <<>>
    /\ response = None
    /\ stdout = <<>>
    /\ written = <<>>
    /\ browser = <<>>
    /\ exception = "none"

\* what the rest of main leaves behind: the requests sent, ls/mkdir/rmdir's
\* directory, the lines printed, the URLs opened, the exception raised
Proceed(p, reqs, dir, out, brw, exc) ==
    /\ pc' = p
    /\ requests' = reqs
    /\ directory' = dir
    /\ stdout' = out
    /\ browser' = brw
    /\ exception' = exc

\* the request sent a second time
Send_twice(req, dir) == Proceed("waiting", <<req, req>>, dir, <<>>, <<>>, "none")

Send(req, dir) == Proceed("waiting", <<req>>, dir, <<>>, <<>>, "none")

\* the call main makes for args.command, up to the point where the
\* operation blocks in requests.request
Dispatch(h, p, a, readable) ==
    LET c == a.command IN
    IF c \in {Some("devices"), Some("diskinfo"), Some("version")}
        THEN Send(info_request(h, Value(c)), None)
    ELSE IF c = Some("get")
        THEN Send(get_request(h, p, Value(a.src)), None)
    ELSE IF c = Some("ls")
        THEN LET d == ls_directory(Value(a.directory))
             IN Send(ls_request(h, p, d), Some(d))
    ELSE IF c = Some("mkdir")
        THEN LET d == mkdir_directory(Value(a.directory))
             IN Send(mkdir_request(h, p, d), Some(d))
    ELSE IF c = Some("mv")
        THEN Send(mv_request(h, p, Value(a.src), Value(a.dst)), None)
    ELSE IF c = Some("put")
        THEN IF readable
             THEN Send(put_request(h, p, put_dst(Value(a.src), a.dst), FileData), None)
             ELSE Proceed("raised", <<>>, None, <<>>, <<>>, "FileNotFoundError")
    ELSE IF c = Some("repl")
        THEN Proceed("exit", <<>>, None, <<>>, <<repl_url(h)>>, "none")
    ELSE IF c = Some("rm")
        THEN Send(rm_request(h, p, Value(a.file)), None)
    ELSE IF c = Some("rmdir")
        THEN LET d == rmdir_directory(Value(a.directory))
             IN Send(rmdir_request(h, p, d), Some(d))
    ELSE Proceed("exit", <<>>, None, <<Line("usage: cpremote")>>, <<>>, "none")

main ==
    /\ pc = "start"
    /\ \E e \in Environs, f \in Flags, o \in Operands :
        LET a == parse_args(f, o)
            host == Override(a.host, e.CPREMOTE_HOST)
            password == Override(a.password, e.CPREMOTE_PASSWORD)
            units == Override(a.units, e.CPREMOTE_UNITS)
            error == ConfigError(host, password)
        IN  /\ environ' = e
            /\ args' = a
            /\ cpremote_host' = host
            /\ cpremote_password' = password
            /\ cpremote_units' = units
            /\ IF ~(error = None)
               THEN Proceed("exit", <<>>, None, <<Line(Value(error))>>, <<>>, "none")
               ELSE \E readable \in IF a.command = Some("put") THEN BOOLEAN ELSE {TRUE} :
                        Dispatch(Value(host), Value(password), a, readable)
    /\ UNCHANGED <<run, response, written>>

\* --------------------------------------------------------------- responses
StatusCodes == {200, 201, 204, 401, 403, 404, 409, 412, 413, 417, 418, 500}

\* a body is its text and what json.loads makes of it
Invalid == [kind |-> "invalid"]
Object == [kind |-> "object"]

PlainBodies ==
    {[text |-> "", json |-> Invalid],
     [text |-> "Incorrect password", json |-> Invalid],
     [text |-> "{}", json |-> Object]}

FileEntry ==
    [name |-> "code.py", directory |-> FALSE, file_size |-> 22,
     modified |-> [tm_year |-> 2024, date |-> "Jan 02", clock |-> "03:04"]]

DirEntry ==
    [name |-> "lib", directory |-> TRUE, file_size |-> 0,
     modified |-> [tm_year |-> 2023, date |-> "Dec 31", clock |-> "23:59"]]

Listings ==
    [kind : {"listing"}, files : {<<>>, <<FileEntry, DirEntry>>},
     free : {3, 100}, total : {200}, block_size : {500, 512},
     writable : {TRUE}]

ListingText(l) ==
    "{files: " \o ToString(Len(l.files)) \o ", free: " \o ToString(l.free)
    \o ", total: " \o ToString(l.total) \o ", block_size: "
    \o ToString(l.block_size) \o ", writable: " \o ToString(l.writable) \o "}"

ListingBodies == {[text |-> ListingText(l), json |-> l] : l \in Listings}

\* the responses the device can give: any status with any plain body, and a
\* directory listing as the body of a 200 to ls
Responses(command) ==
    [status_code : StatusCodes, body : PlainBodies]
    \cup (IF command = "ls"
          THEN [status_code : {200}, body : ListingBodies] ELSE {})

\* f'Unknown {response.status_code}: {response.text}'
Unknown(r) == <<"Unknown ", ToString(r.status_code), ": ", r.body.text>>

\* time.localtime()
current_time == [tm_year |-> 2024]

\* ---------------------------------------------------------------- numbers
\* a Python number: an int num (PyInt: den = 1, float FALSE), or the float num/den
PyInt(n) == [num |-> n, den |-> 1, float |-> FALSE]
Mul(a, b) == [num |-> a.num * b.num, den |-> a.den * b.den,
              float |-> a.float \/ b.float]
TrueDiv(a, n) == [num |-> a.num, den |-> a.den * n, float |-> TRUE]

\* the digits after the point of f/den (0 <= f < den), at least one
RECURSIVE Fraction(_, _)
Fraction(f, den) ==
    LET digit == (f * 10) \div den
        rest == (f * 10) % den
    IN ToString(digit) \o (IF rest = 0 THEN "" ELSE Fraction(rest, den))

\* f'{x}' of a number
FormatNumber(x) ==
    IF x.float
    THEN ToString(x.num \div x.den) \o "." \o Fraction(x.num % x.den, x.den)
    ELSE ToString(x.num)

\* ------------------------------------------------------- status dispatchers
get_message(r, dst) ==
    IF r.status_code = 200
        THEN IF dst = None THEN Line(r.body.text)
             ELSE Line("File exists and file returned")
    ELSE IF r.status_code = 401 THEN Line("Incorrect password")
    ELSE IF r.status_code = 403 THEN Line("No CIRCUITPY_WEB_API_PASSWORD set")
    ELSE IF r.status_code = 404 THEN Line("Missing file")
    ELSE Unknown(r)

ls_message(r) ==
    IF r.status_code = 401 THEN Line("Incorrect password")
    ELSE IF r.status_code = 403 THEN Line("No CIRCUITPY_WEB_API_PASSWORD set")
    ELSE IF r.status_code = 404 THEN Line("Missing directory")
    ELSE Unknown(r)

\* mkdir taking every 2xx it is sent as success
mkdir_message_any_2xx(r) ==
    IF r.status_code \in {200, 201} THEN Line("Directory created")
    ELSE IF r.status_code = 204 THEN Line("Directory or file exists")
    ELSE IF r.status_code = 401 THEN Line("Incorrect password")
    ELSE IF r.status_code = 403 THEN Line("No CIRCUITPY_WEB_API_PASSWORD set")
    ELSE IF r.status_code = 404 THEN Line("Missing parent directory")
    ELSE IF r.status_code = 409
        THEN Line("USB is active and preventing file system modification")
    ELSE IF r.status_code = 500 THEN Line("Other, unhandled error")
    ELSE Unknown(r)

mkdir_message(r) ==
    IF r.status_code = 201 THEN Line("Directory created")
    ELSE IF r.status_code = 204 THEN Line("Directory or file exists")
    ELSE IF r.status_code = 401 THEN Line("Incorrect password")
    ELSE IF r.status_code = 403 THEN Line("No CIRCUITPY_WEB_API_PASSWORD set")
    ELSE IF r.status_code = 404 THEN Line("Missing parent directory")
    ELSE IF r.status_code = 409
        THEN Line("USB is active and preventing file system modification")
    ELSE IF r.status_code = 500 THEN Line("Other, unhandled error")
    ELSE Unknown(r)

\* mv with the 401 and 403 messages exchanged
mv_message_swapped(r) ==
    IF r.status_code = 201 THEN Line("File/directory renamed")
    ELSE IF r.status_code = 401 THEN Line("No CIRCUITPY_WEB_API_PASSWORD set")
    ELSE IF r.status_code = 403 THEN Line("Incorrect password")
    ELSE IF r.status_code = 404
        THEN Line("Source file/directory not found or destination path is missing")
    ELSE IF r.status_code = 409
        THEN Line("USB is active and preventing file system modification")
    ELSE IF r.status_code = 412
        THEN Line("Precondition Failed - The destination path is already in use")
    ELSE Unknown(r)

mv_message(r) ==
    IF r.status_code = 201 THEN Line("File/directory renamed")
    ELSE IF r.status_code = 401 THEN Line("Incorrect password")
    ELSE IF r.status_code = 403 THEN Line("No CIRCUITPY_WEB_API_PASSWORD set")
    ELSE IF r.status_code = 404
        THEN Line("Source file/directory not found or destination path is missing")
    ELSE IF r.status_code = 409
        THEN Line("USB is active and preventing file system modification")
    ELSE IF r.status_code = 412
        THEN Line("Precondition Failed - The destination path is already in use")
    ELSE Unknown(r)

put_message(r) ==
    IF r.status_code = 201 THEN Line("File created and saved")
    ELSE IF r.status_code = 204 THEN Line("File existed and overwritten")
    ELSE IF r.status_code = 401 THEN Line("Incorrect password")
    ELSE IF r.status_code = 403 THEN Line("No CIRCUITPY_WEB_API_PASSWORD set")
    ELSE IF r.status_code = 404 THEN Line("Missing parent directory")
    ELSE IF r.status_code = 409
        THEN Line("USB is active and preventing file system modification")
    ELSE IF r.status_code = 413
        THEN Line("Expect header not sent and file is too large")
    ELSE IF r.status_code = 417
        THEN Line("Expect header sent and file is too large")
    ELSE IF r.status_code = 500 THEN Line("Other, unhandled error")
    ELSE Unknown(r)

rm_message(r) ==
    IF r.status_code = 204 THEN Line("File existed and deleted")
    ELSE IF r.status_code = 401 THEN Line("Incorrect password")
    ELSE IF r.status_code = 403 THEN Line("No CIRCUITPY_WEB_API_PASSWORD set")
    ELSE IF r.status_code = 404 THEN Line("File not found")
    ELSE IF r.status_code = 409
        THEN Line("USB is active and preventing file system modification")
    ELSE Unknown(r)

rmdir_message(r) ==
    IF r.status_code = 204 THEN Line("Directory and its contents deleted")
    ELSE IF r.status_code = 401 THEN Line("Incorrect password")
    ELSE IF r.status_code = 403 THEN Line("No CIRCUITPY_WEB_API_PASSWORD set")
    ELSE IF r.status_code = 404 THEN Line("No directory")
    ELSE IF r.status_code = 409
        THEN Line("USB is active and preventing file system modification")
    ELSE Unknown(r)

\* ------------------------------------------------------------- ls, on 200
\* f'{b}' of a bool
FormatBool(b) == IF b THEN "True" ELSE "False"

\* the `directory` the loop body rebinds: '/' for a directory, '' for a file
ls_mark(file) == IF file.directory THEN <<"/">> ELSE <<>>

ls_modified_time(t) ==
    IF t.tm_year = current_time.tm_year
    THEN t.date \o " " \o t.clock
    ELSE t.date \o "  " \o ToString(t.tm_year)

\* f'{file_size}\t{modified_time}\t{file["name"]}{directory}'
ls_entry(file) ==
    LET mark == ls_mark(file)
        file_size == IF mark = <<>> THEN ToString(file.file_size) ELSE ""
    IN <<file_size, "\t", ls_modified_time(file.modified), "\t", file.name,
         Join(mark)>>

\* kilobytes by floor division
ls_convert_floor(n, block_size, units) ==
    IF units = Some("b") THEN Mul(PyInt(n), PyInt(block_size))
    ELSE IF units = Some("kb") THEN PyInt((n * block_size) \div 1024)
    ELSE PyInt(n)

\* free and total as the units branch leaves them
ls_convert(n, block_size, units) ==
    IF units = Some("b") THEN Mul(PyInt(n), PyInt(block_size))
    ELSE IF units = Some("kb")
        THEN TrueDiv(Mul(PyInt(n), PyInt(block_size)), 1024)
    ELSE PyInt(n)

ls_summary(data, units) ==
    LET free == ls_convert(data.free, data.block_size, units)
        total == ls_convert(data.total, data.block_size, units)
    IN <<"free: ", FormatNumber(free), " ", FormatOptional(units),
         ", total: ", FormatNumber(total), " ", FormatOptional(units),
         ", block size: ", ToString(data.block_size),
         ", writable: ", FormatBool(data.writable)>>

ls_listing(host, dir, data, units) ==
    <<  <<"Host ", host, ", directory ", Join(IF dir = <<>> THEN <<"/">> ELSE dir)>>,
        Line("Size\tModified\tName")  >>
    \o [i \in 1..Len(data.files) |-> ls_entry(data.files[i])]
    \o << ls_summary(data, units) >>

\* `directory` when ls returns from the 200 branch
ls_directory_after(dir, files) ==
    IF Len(files) > 0 THEN ls_mark(files[Len(files)])
    ELSE IF dir = <<>> THEN <<"/">> ELSE dir

\* json.dumps(obj, indent=4) of the object parsed from `text`
dumps(text, indent) == "indent=" \o ToString(indent) \o " " \o text

\* ------------------------------------------------- the operations, resumed
\* the response arrives and the operation runs to its end
Finish(command, r, p, out, exc) ==
    /\ pc = "waiting"
    /\ args.command = Some(command)
    /\ response' = Some(r)
    /\ pc' = p
    /\ stdout' = out
    /\ exception' = exc
    /\ UNCHANGED <<run, environ, args, cpremote_host, cpremote_password,
                   cpremote_units, requests, browser>>

Return(command, r, out) == Finish(command, r, "exit", out, "none")
Raise(command, r, exc) == Finish(command, r, "raised", <<>>, exc)

get ==
    \E r \in Responses("get"), writable \in BOOLEAN :
        /\ IF r.status_code = 200 /\ ~(args.dst = None)
           THEN IF writable
                THEN /\ written' = <<[name |-> Join(Value(args.dst)),
                                      text |-> r.body.text]>>
                     /\ Return("get", r, <<get_message(r, args.dst)>>)
                ELSE /\ written' = written
                     /\ Raise("get", r, "PermissionError")
           ELSE /\ writable
                /\ written' = written
                /\ Return("get", r, <<get_message(r, args.dst)>>)
        /\ UNCHANGED directory

info ==
    \E path \in {"devices", "diskinfo", "version"} : \E r \in Responses(path) :
        /\ IF r.body.json = Invalid
           THEN Raise(path, r, "JSONDecodeError")
           ELSE Return(path, r, <<Line(dumps(r.body.text, 4))>>)
        /\ UNCHANGED <<directory, written>>

ls ==
    \E r \in Responses("ls") :
        /\ IF r.status_code = 200
           THEN IF r.body.json.kind = "invalid"
                    THEN Raise("ls", r, "JSONDecodeError") /\ UNCHANGED directory
                ELSE IF r.body.json.kind = "object"
                    THEN Raise("ls", r, "KeyError") /\ UNCHANGED directory
                ELSE /\ Return("ls", r, ls_listing(Value(cpremote_host), Value(directory),
                                                   r.body.json, cpremote_units))
                     /\ directory' = Some(ls_directory_after(Value(directory),
                                                             r.body.json.files))
           ELSE Return("ls", r, <<ls_message(r)>>) /\ UNCHANGED directory
        /\ UNCHANGED written

mkdir ==
    \E r \in Responses("mkdir") :
        /\ Return("mkdir", r, <<mkdir_message(r)>>)
        /\ UNCHANGED <<directory, written>>

mv ==
    \E r \in Responses("mv") :
        /\ Return("mv", r, <<mv_message(r)>>)
        /\ UNCHANGED <<directory, written>>

put ==
    \E r \in Responses("put") :
        /\ Return("put", r, <<put_message(r)>>)
        /\ UNCHANGED <<directory, written>>

rm ==
    \E r \in Responses("rm") :
        /\ Return("rm", r, <<rm_message(r)>>)
        /\ UNCHANGED <<directory, written>>

rmdir ==
    \E r \in Responses("rmdir") :
        /\ Return("rmdir", r, <<rmdir_message(r)>>)
        /\ UNCHANGED <<directory, written>>

\* requests.request raises instead of returning: no try/except anywhere, so
\* the exception leaves the operation and main
TransportErrors(request) ==
    {"ConnectionError"} \cup (IF request.timeout = None THEN {} ELSE {"Timeout"})

transport_error ==
    /\ pc = "waiting"
    /\ \E exc \in TransportErrors(requests[1]) :
        /\ pc' = "raised"
        /\ exception' = exc
    /\ UNCHANGED <<run, environ, args, cpremote_host, cpremote_password,
                   cpremote_units, directory, requests, response, stdout,
                   written, browser>>

\* the process has ended; the next invocation is a fresh process
invoke_again ==
    /\ pc \in {"exit", "raised"}
    /\ run < MaxRuns
    /\ run' = run + 1
    /\ pc' = "start"
    /\ environ' = NoEnviron
    /\ args' = NoArgs
    /\ cpremote_host' = None
    /\ cpremote_password' = None
    /\ cpremote_units' = None
    /\ directory' = None
    /\ requests' = <<>>
    /\ response' = None
    /\ stdout' = <<>>
    /\ written' = <<>>
    /\ browser' = <<>>
    /\ exception' = "none"

Next ==
    \/ main
    \/ get
    \/ info
    \/ ls
    \/ mkdir
    \/ mv
    \/ put
    \/ rm
    \/ rmdir
    \/ transport_error
    \/ invoke_again

Spec == Init /\ [][Next]_vars


\* ================================================================== claims
FsCommands == {"get", "ls", "mkdir", "mv", "put", "rm", "rmdir"}
DirCommands == {"ls", "mkdir", "rmdir"}
InfoCommands == {"devices", "diskinfo", "version"}

Command == IF args.command = None THEN "" ELSE Value(args.command)
Answered == ~(response = None)
Status == Value(response).status_code
Body == Value(response).body
Ended == pc \in {"exit", "raised"}

KnownCodes(command) ==
    CASE command \in {"get", "ls"} -> {200, 401, 403, 404}
      [] command = "mkdir" -> {201, 204, 401, 403, 404, 409, 500}
      [] command = "mv" -> {201, 401, 403, 404, 409, 412}
      [] command = "put" -> {201, 204, 401, 403, 404, 409, 413, 417, 500}
      [] command \in {"rm", "rmdir"} -> {204, 401, 403, 404, 409}

Busy == "USB is active and preventing file system modification"

\* the message documented for a listed code of an operation, get 200 and
\* ls 200 (whose output is the body or the listing) apart
Documented(command, code) ==
    CASE code = 401 -> "Incorrect password"
      [] code = 403 -> "No CIRCUITPY_WEB_API_PASSWORD set"
      [] code = 409 -> Busy
      [] code = 500 -> "Other, unhandled error"
      [] code = 412 -> "Precondition Failed - The destination path is already in use"
      [] code = 413 -> "Expect header not sent and file is too large"
      [] code = 417 -> "Expect header sent and file is too large"
      [] code = 404 ->
            (CASE command = "get" -> "Missing file"
               [] command = "ls" -> "Missing directory"
               [] command \in {"mkdir", "put"} -> "Missing parent directory"
               [] command = "mv" ->
                    "Source file/directory not found or destination path is missing"
               [] command = "rm" -> "File not found"
               [] command = "rmdir" -> "No directory")
      [] code = 201 ->
            (CASE command = "mkdir" -> "Directory created"
               [] command = "mv" -> "File/directory renamed"
               [] command = "put" -> "File created and saved")
      [] code = 204 ->
            (CASE command = "mkdir" -> "Directory or file exists"
               [] command = "put" -> "File existed and overwritten"
               [] command = "rm" -> "File existed and deleted"
               [] command = "rmdir" -> "Directory and its contents deleted")

DocumentedMessages ==
    {Documented(c, k) : c \in FsCommands, k \in {401, 403, 404}}
    \cup {Documented("mkdir", k) : k \in {201, 204, 409, 500}}
    \cup {Documented("mv", k) : k \in {201, 412}}
    \cup {Documented("put", k) : k \in {201, 204, 413, 417}}
    \cup {Documented(c, 204) : c \in {"rm", "rmdir"}}
    \cup {"File exists and file returned"}

Contains(line, piece) == \E i \in 1..Len(line) : line[i] = piece

\* ---- C2
\* C2: for each filesystem operation, a response whose status code is not in
\* the operation's table (an unmodelled success code included) makes the
\* operation print exactly one line, which holds the literal status code and
\* the raw response body and is none of the documented messages.
C2_UnknownStatusEchoed ==
    (Answered /\ Command \in FsCommands /\ Status \notin KnownCodes(Command)) =>
        /\ pc = "exit"
        /\ Len(stdout) = 1
        /\ Contains(stdout[1], ToString(Status))
        /\ Contains(stdout[1], Body.text)
        /\ \A m \in DocumentedMessages : ~(stdout[1] = Line(m))

C2_Witness ==
    /\ Answered /\ Command = "mkdir" /\ Status = 200
    /\ Body.text = "Incorrect password"
    /\ stdout = << <<"Unknown ", "200", ": ", "Incorrect password">> >>

\* ---- C3
\* C3 as stated: for each filesystem operation, a response with a code of the
\* operation's table yields exactly one outcome fixed by (operation, code)
\* in every run, whatever earlier runs returned: the success output for the
\* success codes (for get 200 the body or the file-returned message, for
\* ls 200 the listing, else the documented success message) with no error
\* message, and the documented failure message for the other listed codes.
C3_OutcomeByOperationAndStatus ==
    (Answered /\ Command \in FsCommands /\ Status \in KnownCodes(Command)) =>
        /\ pc = "exit"
        /\ IF Command = "get" /\ Status = 200
           THEN stdout = (IF args.dst = None THEN <<Line(Body.text)>>
                          ELSE <<Line("File exists and file returned")>>)
           ELSE IF Command = "ls" /\ Status = 200
           THEN /\ Len(stdout) >= 3
                /\ stdout[1][1] = "Host "
                /\ stdout[Len(stdout)][1] = "free: "
           ELSE stdout = <<Line(Documented(Command, Status))>>

\* ---- C4
DirArg == Value(args.directory)
SentUrl == requests[1].url
DirUrl(d) == Value(cpremote_host) \o "/fs/" \o Join(d)
Normalize(command, d) ==
    CASE command = "ls" -> ls_directory(d)
      [] command = "mkdir" -> mkdir_directory(d)
      [] command = "rmdir" -> rmdir_directory(d)

\* C4 as stated: for ls, mkdir and rmdir and EVERY directory argument d, the
\* request URL is host + '/fs/' + d + '/', the same as for the argument
\* d + '/'.
C4_SameUrlForEveryArgument ==
    (pc = "waiting" /\ Command \in DirCommands) =>
        /\ SentUrl = DirUrl(DirArg \o <<"/">>)
        /\ DirUrl(Normalize(Command, DirArg \o <<"/">>)) = SentUrl

\* C4 amended: for ls, mkdir and rmdir the path sent always ends with '/': a
\* '/' is appended when the argument does not end with one and nothing is
\* appended when it does (normalization is idempotent), so that an argument
\* d that does not end with '/' and the argument d + '/' produce the
\* identical request URL host + '/fs/' + d + '/'.
C4_DirectoryNormalized ==
    (pc = "waiting" /\ Command \in DirCommands) =>
        /\ SentUrl = DirUrl(Value(directory))
        /\ endswith_slash(Value(directory))
        /\ Normalize(Command, Value(directory)) = Value(directory)
        /\ IF endswith_slash(DirArg)
           THEN Value(directory) = DirArg
           ELSE /\ Value(directory) = DirArg \o <<"/">>
                /\ SentUrl = DirUrl(DirArg \o <<"/">>)
                /\ DirUrl(Normalize(Command, DirArg \o <<"/">>)) = SentUrl

C4_Witness ==
    /\ pc = "waiting" /\ Command = "rmdir" /\ DirArg = <<"a">>
    /\ SentUrl = "http://env/fs/a/"

\* ---- C5
HostAbsent == args.host = None /\ environ.CPREMOTE_HOST = None
PasswordAbsent == args.password = None /\ environ.CPREMOTE_PASSWORD = None

\* C5: once main has run, a flag that was given is the value in force
\* whatever the environment holds, and when neither flag nor environment
\* gives the host, or the password, main has printed one configuration error
\* and returned: no request sent, no browser opened, for every subcommand.
C5_ConfigurationError ==
    ~(pc = "start") =>
        /\ ~(args.host = None) => cpremote_host = args.host
        /\ ~(args.password = None) => cpremote_password = args.password
        /\ ~(args.units = None) => cpremote_units = args.units
        /\ args.host = None => cpremote_host = environ.CPREMOTE_HOST
        /\ args.password = None => cpremote_password = environ.CPREMOTE_PASSWORD
        /\ args.units = None => cpremote_units = environ.CPREMOTE_UNITS
        /\ (HostAbsent \/ PasswordAbsent) =>
            /\ pc = "exit"
            /\ requests = <<>>
            /\ browser = <<>>
            /\ response = None
            /\ stdout = IF HostAbsent
                        THEN <<Line("Error: CPREMOTE_HOST is not set")>>
                        ELSE <<Line("Error: CPREMOTE_PASSWORD is not set")>>

C5_Witness ==
    /\ pc = "exit" /\ Command = "repl"
    /\ args.host = Some("http://flag") /\ environ.CPREMOTE_HOST = Some("http://env")
    /\ cpremote_host = Some("http://flag")
    /\ PasswordAbsent
    /\ browser = <<>>
    /\ stdout = <<Line("Error: CPREMOTE_PASSWORD is not set")>>

\* ---- C6
\* C6 as stated: no exception leaves an operation; a network failure, a body
\* that cannot be parsed and a local file that cannot be opened each end in
\* a printed line, and the run completes normally.
C6_NoExceptionPropagates ==
    /\ ~(pc = "raised")
    /\ exception = "none"

\* ---- C7
\* C7 as stated: an info operation answered 200 with a JSON body prints the
\* body pretty-printed with indent 4; answered any other status it prints
\* the raw status and does not pretty-print the body.
C7_InfoStatus ==
    (Answered /\ Command \in InfoCommands) =>
        /\ (Status = 200 /\ ~(Body.json = Invalid)) =>
            stdout = <<Line(dumps(Body.text, 4))>>
        /\ ~(Status = 200) =>
            /\ pc = "exit"
            /\ Len(stdout) = 1
            /\ Contains(stdout[1], ToString(Status))
            /\ ~(stdout[1] = Line(dumps(Body.text, 4)))

\* ---- C8
Listed == Answered /\ Command = "ls" /\ Status = 200 /\ Body.json.kind = "listing"
Summary == stdout[Len(stdout)]

\* C8 as stated: with the units given neither by --units nor by
\* CPREMOTE_UNITS, the summary line of ls is the one units 'blocks' gives:
\* the raw block counts, labelled 'blocks'.
C8_DefaultUnitsBlocks ==
    (Listed /\ args.units = None /\ environ.CPREMOTE_UNITS = None) =>
        /\ pc = "exit"
        /\ Summary = ls_summary(Body.json, Some("blocks"))
        /\ Summary[4] = "blocks" /\ Summary[8] = "blocks"

\* ---- C9
\* C9: in the summary line of a successful ls, free and total are shown
\* unconverted with units 'blocks', times block_size with 'b', and times
\* block_size divided by 1024 (a float) with 'kb'; block_size is shown
\* unconverted in all three; 100, 200, 512 give 100/200, 51200/102400 and
\* 50.0/100.0.
C9_UnitsConversion ==
    (Listed /\ cpremote_units \in {Some("blocks"), Some("b"), Some("kb")}) =>
        LET d == Body.json
            u == Value(cpremote_units)
            shown(n) ==
                CASE u = "blocks" -> ToString(n)
                  [] u = "b" -> ToString(n * d.block_size)
                  [] u = "kb" ->
                        FormatNumber([num |-> n * d.block_size, den |-> 1024,
                                      float |-> TRUE])
        IN  /\ pc = "exit"
            /\ Summary[1] = "free: " /\ Summary[2] = shown(d.free)
            /\ Summary[4] = u
            /\ Summary[5] = ", total: " /\ Summary[6] = shown(d.total)
            /\ Summary[8] = u
            /\ Summary[9] = ", block size: "
            /\ Summary[10] = ToString(d.block_size)
            /\ (d.free = 100 /\ d.total = 200 /\ d.block_size = 512) =>
                <<Summary[2], Summary[6]>> =
                    (CASE u = "blocks" -> <<"100", "200">>
                       [] u = "b" -> <<"51200", "102400">>
                       [] u = "kb" -> <<"50.0", "100.0">>)
            /\ (d.free = 3 /\ d.block_size = 512 /\ u = "kb") => Summary[2] = "1.5"

C9_Witness ==
    /\ Listed /\ pc = "exit" /\ cpremote_units = Some("kb")
    /\ Body.json.free = 3 /\ Body.json.block_size = 500
    /\ Summary[2] = "1.46484375" /\ Summary[4] = "kb"
    /\ Summary[6] = "97.65625"

\* ---- C10
ConfigOk == ~HostAbsent /\ ~PasswordAbsent

\* C10 as stated: every run that has ended has sent exactly one request.
C10_ExactlyOneRequest ==
    Ended => Len(requests) = 1

\* C10 amended: no run sends more than one request, whatever status is
\* returned (no retry); every filesystem or info operation that main calls
\* sends exactly one, put once it has read the local file, and prints only
\* after the response to it has arrived; a run that ends on a configuration
\* error, prints the help or opens the REPL sends none.
C10_AtMostOneRequest ==
    /\ Len(requests) <= 1
    /\ Answered => Len(requests) = 1
    /\ (~(pc = "start") /\ ConfigOk /\ Command \in FsCommands \cup InfoCommands
            /\ ~(exception = "FileNotFoundError")) =>
        /\ Len(requests) = 1
        /\ ~(stdout = <<>>) => Answered
    /\ (Ended /\ (~ConfigOk \/ Command \in {"repl", ""})) => requests = <<>>

C10_Witness ==
    /\ pc = "exit" /\ run = 2 /\ Answered /\ Command = "put" /\ Status = 500
    /\ Len(requests) = 1 /\ requests[1].method = "PUT"
    /\ stdout = <<Line("Other, unhandled error")>>

====
